---- MODULE Spec2Model ----
(***************************************************************************)
(* Error-state extended Kalman filter of src/es_ekf.py: the measurement    *)
(* update (lines 151-163) and the main filter loop (lines 171-203).        *)
(*                                                                         *)
(* Numbers.  The program computes in floating point; the model computes    *)
(* the same expressions exactly, over the rationals.  A vector or matrix   *)
(* is a record [num, den]: integer entries num over one positive common    *)
(* denominator den, kept in lowest terms.  Vectors are sequences, matrices *)
(* are sequences of rows, both indexed from 1 (the program's slice [0:3]   *)
(* is 1..3, [3:6] is 4..6, [6:9] is 7..9).  The per-step arrays p_est,     *)
(* v_est, q_est, p_cov and the timestamp arrays keep the program's indices *)
(* 0..N-1.                                                                 *)
(*                                                                         *)
(* Orientation.  The quaternion algebra (module rotations) is not part of  *)
(* the source at hand; an orientation is kept as the term that built it,   *)
(* and the rotated specific force C_ns.dot(imu_f.data[k-1]) is drawn from  *)
(* a set of integer vectors.                                               *)
(***************************************************************************)
EXTENDS Integers, Sequences, FiniteSets, TLC

VARIABLES
    imu_t,       \* imu_f.t: inertial timestamps, index 0..N-1
    gnss_t,      \* gnss.t, index 0..len-1
    gnss_data,   \* gnss.data, index 0..len-1, integer 3-vectors
    lidar_t,     \* lidar.t
    lidar_data,  \* lidar.data after the calibration transform of line 82
    var_imu_f, var_imu_w, var_gnss, var_lidar,   \* sensor variances (lines 113-116)
    p_est, v_est, q_est, p_cov,                  \* estimates per step (lines 132-135)
    gnss_i, lidar_i,                             \* measurement cursors (lines 142-143)
    k,           \* loop variable of line 171
    pc,          \* position in the loop body
    C_ns_d_f,    \* C_ns_d_f[km]: the rotated specific force of line 177 at k - 1 = km
    applied      \* the measurement_update calls that returned, in order

vars == <<imu_t, gnss_t, gnss_data, lidar_t, lidar_data,
          var_imu_f, var_imu_w, var_gnss, var_lidar,
          C_ns_d_f, p_est, v_est, q_est, p_cov, gnss_i, lidar_i, k, pc, applied>>

inputs == <<imu_t, gnss_t, gnss_data, lidar_t, lidar_data,
            var_imu_f, var_imu_w, var_gnss, var_lidar, C_ns_d_f>>

----------------------------------------------------------------------------
(* Bounds of the model *)

NImu == 3       \* number of inertial samples, imu_f.data.shape[0]
MaxT == 3       \* timestamps range over 0..MaxT
MaxMeas == 2    \* at most this many samples in a measurement stream

----------------------------------------------------------------------------
(* Integer and rational helpers *)

Abs(x) == IF x < 0 THEN -x ELSE x

RECURSIVE Gcd(_, _)
Gcd(a, b) == IF b = 0 THEN Abs(a) ELSE Gcd(Abs(b), Abs(a) % Abs(b))

\* TLC evaluates a function constructor anew at every application and a LET
\* definition anew at every use.  Force(x) makes x an explicit value, and
\* With(v, F) evaluates v once and hands it to F.
Force(x) == IF x = x THEN x ELSE x
With(v, F(_)) == F(v)

RECURSIVE VecGcd(_, _, _)
VecGcd(v, n, g0) == IF n = 0 \/ g0 = 1 THEN g0 ELSE VecGcd(v, n - 1, Gcd(g0, v[n]))

RECURSIVE MatGcd(_, _, _)
MatGcd(m, n, g0) ==
    IF n = 0 \/ g0 = 1 THEN g0 ELSE MatGcd(m, n - 1, VecGcd(m[n], Len(m[n]), g0))

VecOver(num, den, s) ==
    [num |-> Force([i \in 1..Len(num) |-> num[i] \div s]), den |-> den \div s]
MatOver(num, den, s) ==
    [num |-> Force([i \in 1..Len(num) |-> [j \in 1..Len(num[1]) |-> num[i][j] \div s]]),
     den |-> den \div s]

Signed(gcd, den) == IF den < 0 THEN -gcd ELSE gcd

\* the rational vector num/den in lowest terms, den > 0
RVec(num, den) ==
    With(Force(num), LAMBDA v : VecOver(v, den, Signed(VecGcd(v, Len(v), Abs(den)), den)))

\* the rational matrix num/den in lowest terms, den > 0
RMat(num, den) ==
    With(Force(num), LAMBDA m : MatOver(m, den, Signed(MatGcd(m, Len(m), Abs(den)), den)))

IntVec(v) == [num |-> v, den |-> 1]
IntMat(m) == [num |-> Force(m), den |-> 1]

----------------------------------------------------------------------------
(* numpy operations used by the program *)

\* np.zeros([n, m]), np.eye(n) / np.identity(n)
zeros(n, m) == IntMat([i \in 1..n |-> [j \in 1..m |-> 0]])
eye(n) == IntMat([i \in 1..n |-> [j \in 1..n |-> IF i = j THEN 1 ELSE 0]])

\* a.T
T(a) == [num |-> Force([i \in 1..Len(a.num[1]) |-> [j \in 1..Len(a.num) |-> a.num[j][i]]]),
         den |-> a.den]

RECURSIVE DotSum(_, _, _, _, _)
DotSum(a, b, i, j, n) ==
    IF n = 0 THEN 0 ELSE DotSum(a, b, i, j, n - 1) + a[i][n] * b[n][j]

\* a.dot(b) of two matrices
dot(a, b) ==
    RMat([i \in 1..Len(a.num) |-> [j \in 1..Len(b.num[1]) |->
              DotSum(a.num, b.num, i, j, Len(b.num))]],
         a.den * b.den)

RECURSIVE DotVecSum(_, _, _, _)
DotVecSum(a, v, i, n) ==
    IF n = 0 THEN 0 ELSE DotVecSum(a, v, i, n - 1) + a[i][n] * v[n]

\* a.dot(v) of a matrix and a 1-D array
dotv(a, v) ==
    RVec([i \in 1..Len(a.num) |-> DotVecSum(a.num, v.num, i, Len(v.num))], a.den * v.den)

\* ea * a.num + eb * b.num over den
MatCombine(a, ea, b, eb, den) ==
    RMat([i \in 1..Len(a.num) |-> [j \in 1..Len(a.num[1]) |->
              a.num[i][j] * ea + b.num[i][j] * eb]], den)
VecCombine(a, ea, b, eb, den) ==
    RVec([i \in 1..Len(a.num) |-> a.num[i] * ea + b.num[i] * eb], den)

\* a + b, a - b of matrices, over the least common denominator
madd(a, b) ==
    With(Gcd(a.den, b.den), LAMBDA c :
        MatCombine(a, b.den \div c, b, a.den \div c, a.den * (b.den \div c)))
msub(a, b) ==
    With(Gcd(a.den, b.den), LAMBDA c :
        MatCombine(a, b.den \div c, b, -(a.den \div c), a.den * (b.den \div c)))

\* a + b, a - b of 1-D arrays
vadd(a, b) ==
    With(Gcd(a.den, b.den), LAMBDA c :
        VecCombine(a, b.den \div c, b, a.den \div c, a.den * (b.den \div c)))
vsub(a, b) ==
    With(Gcd(a.den, b.den), LAMBDA c :
        VecCombine(a, b.den \div c, b, -(a.den \div c), a.den * (b.den \div c)))

\* (n/d) * v of a 1-D array, (n/d) * a of a matrix
vscale(n, d, v) == RVec([i \in 1..Len(v.num) |-> n * v.num[i]], d * v.den)
mscale(n, d, a) ==
    RMat([i \in 1..Len(a.num) |-> [j \in 1..Len(a.num[1]) |-> n * a.num[i][j]]], d * a.den)

\* v[lo-1:hi] of a 1-D array
slice(v, lo, hi) == RVec([i \in 1..(hi - lo + 1) |-> v.num[lo + i - 1]], v.den)

\* determinant and adjugate of a 3x3 integer matrix
Det3(m) ==
      m[1][1] * (m[2][2] * m[3][3] - m[2][3] * m[3][2])
    - m[1][2] * (m[2][1] * m[3][3] - m[2][3] * m[3][1])
    + m[1][3] * (m[2][1] * m[3][2] - m[2][2] * m[3][1])

Adj3(m) ==
    << << m[2][2] * m[3][3] - m[2][3] * m[3][2],
          m[1][3] * m[3][2] - m[1][2] * m[3][3],
          m[1][2] * m[2][3] - m[1][3] * m[2][2] >>,
       << m[2][3] * m[3][1] - m[2][1] * m[3][3],
          m[1][1] * m[3][3] - m[1][3] * m[3][1],
          m[1][3] * m[2][1] - m[1][1] * m[2][3] >>,
       << m[2][1] * m[3][2] - m[2][2] * m[3][1],
          m[1][2] * m[3][1] - m[1][1] * m[3][2],
          m[1][1] * m[2][2] - m[1][2] * m[2][1] >> >>

\* np.linalg.inv raises LinAlgError("Singular matrix") on a singular matrix
Singular(a) == Det3(a.num) = 0

\* np.linalg.inv(a) of a non-singular 3x3 matrix: den * adj(num) / det(num),
\* computed on num with the gcd g of its entries taken out
InvOver(a, g) ==
    With(MatOver(a.num, 1, g).num, LAMBDA n :
        With(Adj3(n), LAMBDA adj :
            RMat([i \in 1..3 |-> [j \in 1..3 |-> a.den * adj[i][j]]], g * Det3(n))))
inv(a) == InvOver(a, MatGcd(a.num, 3, 0))

----------------------------------------------------------------------------
(* The rotation algebra the program imports (line 5) *)

\* skew_symmetric(v): the matrix of the cross product with v
skew_symmetric(v) ==
    IntMat(<< <<0, -v[3], v[2]>>, <<v[3], 0, -v[1]>>, <<-v[2], v[1], 0>> >>)

\* the values C_ns.dot(imu_f.data[k-1]) may take, C_ns = Quaternion(*q).to_mat()
RotatedForces == { <<0, 0, 0>>, <<1, 0, 2>> }

\* Quaternion(euler=gt.r[0]).to_numpy(), and a row of np.zeros([N, 4])
q_init == [op |-> "euler", of |-> "gt.r[0]"]
q_zeros == [op |-> "zeros"]

\* Quaternion(axis_angle=imu_w.data[km] * delta_t).quat_mult_right(q)
quat_mult_right(km, delta_t, q) ==
    [op |-> "quat_mult_right", axis_angle |-> <<km, delta_t>>, q |-> q]

\* Quaternion(euler=e).quat_mult_left(q)
quat_mult_left(e, q) == [op |-> "quat_mult_left", euler |-> e, q |-> q]

----------------------------------------------------------------------------
(* Constants of the program (lines 121-125) and initial values *)

\* g = np.array([0, 0, -9.81])
g == [num |-> <<0, 0, -981>>, den |-> 100]

\* l_jac = zeros([9, 6]); l_jac[3:, :] = eye(6)
l_jac == IntMat([i \in 1..9 |-> [j \in 1..6 |-> IF i = j + 3 THEN 1 ELSE 0]])

\* h_jac = zeros([3, 9]); h_jac[:, :3] = eye(3)
h_jac == IntMat([i \in 1..3 |-> [j \in 1..9 |-> IF i = j THEN 1 ELSE 0]])

\* gt.p[0], gt.v[0]
gt_p0 == IntVec(<<0, 0, 0>>)
gt_v0 == IntVec(<<0, 0, 0>>)

\* imu_f.data.shape[0]
N == Cardinality(DOMAIN imu_t)

----------------------------------------------------------------------------
(* 4. Measurement update (lines 151-163) *)

\* The innovation covariance h_jac.dot(p_cov_check).dot(h_jac.T) + r_cov of line 154
innovation_cov(sensor_var, p_cov_check) ==
    LET r_cov == mscale(sensor_var, 1, eye(3))
    IN  madd(dot(dot(h_jac, p_cov_check), T(h_jac)), r_cov)

\* line 162 with the identity added to, not reduced by, k_gain.dot(h_jac)
corrected_cov_added(k_gain, p_cov_check) ==
    dot(madd(eye(9), dot(k_gain, h_jac)), p_cov_check)

\* p_cov_hat of line 162
corrected_cov(k_gain, p_cov_check) ==
    dot(msub(eye(9), dot(k_gain, h_jac)), p_cov_check)

\* raised: np.linalg.inv raised LinAlgError; otherwise the four values returned
measurement_update(sensor_var, p_cov_check, y_k, p_check, v_check, q_check) ==
    With(innovation_cov(sensor_var, p_cov_check), LAMBDA S :
        IF Singular(S)
        THEN [raised |-> TRUE]
        ELSE With(dot(dot(p_cov_check, T(h_jac)), inv(S)), LAMBDA k_gain :
             With(dotv(k_gain, vsub(y_k, p_check)), LAMBDA x_error :
                 [raised |-> FALSE,
                  p_hat |-> vadd(p_check, slice(x_error, 1, 3)),
                  v_hat |-> vadd(v_check, slice(x_error, 4, 6)),
                  q_hat |-> quat_mult_left(slice(x_error, 7, 9), q_check),
                  p_cov_hat |-> corrected_cov(k_gain, p_cov_check)])))

----------------------------------------------------------------------------
(* 5. Main filter loop (lines 171-203) *)

\* f_ja_km of lines 185-187
motion_jacobian(delta_t, f) ==
    With(skew_symmetric(f).num, LAMBDA sk :
        IntMat([i \in 1..9 |-> [j \in 1..9 |->
            IF i = j THEN 1
            ELSE IF i \in 1..3 /\ j = i + 3 THEN delta_t
            ELSE IF i \in 4..6 /\ j \in 7..9 THEN -sk[i - 3][j - 6] * delta_t
            ELSE 0]]))

\* q_cov_km of lines 190-192
process_noise(delta_t, vf, vw) ==
    IntMat([i \in 1..6 |-> [j \in 1..6 |->
            IF i # j THEN 0
            ELSE IF i <= 3 THEN delta_t * delta_t * vf
            ELSE delta_t * delta_t * vw]])

\* line 193 without the transpose of f_ja_km
propagated_cov_untransposed(f_ja_km, q_cov_km, p_cov_km) ==
    madd(dot(dot(f_ja_km, p_cov_km), f_ja_km), dot(dot(l_jac, q_cov_km), T(l_jac)))

\* p_cov[k] of line 193
propagated_cov(f_ja_km, q_cov_km, p_cov_km) ==
    madd(dot(dot(f_ja_km, p_cov_km), T(f_ja_km)), dot(dot(l_jac, q_cov_km), T(l_jac)))

\* The values lines 179-193 write to index kk, from index kk - 1 and the force f
Propagated(kk, f) ==
    With(imu_t[kk] - imu_t[kk - 1], LAMBDA delta_t :
    With(vadd(IntVec(f), g), LAMBDA a :
        [p |-> vadd(vadd(p_est[kk - 1], vscale(delta_t, 1, v_est[kk - 1])),
                    vscale(delta_t * delta_t, 2, a)),
         v |-> vadd(v_est[kk - 1], vscale(delta_t, 1, a)),
         q |-> quat_mult_right(kk - 1, delta_t, q_est[kk - 1]),
         cov |-> propagated_cov(motion_jacobian(delta_t, f),
                                process_noise(delta_t, var_imu_f, var_imu_w),
                                p_cov[kk - 1])]))

\* lines 172-193: propagate the nominal state and the covariance to index k
Propagate ==
    /\ pc = "propagate"
    /\ With(Propagated(k, C_ns_d_f[k - 1]), LAMBDA r :
              /\ p_est' = [p_est EXCEPT ![k] = r.p]
              /\ v_est' = [v_est EXCEPT ![k] = r.v]
              /\ q_est' = [q_est EXCEPT ![k] = r.q]
              /\ p_cov' = [p_cov EXCEPT ![k] = r.cov])
    /\ pc' = "gnss"
    /\ UNCHANGED <<inputs, gnss_i, lidar_i, k, applied>>

\* line 195 matching the newest sample not after the inertial timestamp
gnss_gate_not_after == gnss_i < Len(gnss_data) /\ gnss_t[gnss_i + 1] <= imu_t[k]

\* line 195 matching against the previous inertial timestamp, as line 200 does
gnss_gate_previous == gnss_i < Len(gnss_data) /\ imu_t[k - 1] = gnss_t[gnss_i + 1]

\* the cursor moved two samples on
advance_two(cursor) == cursor + 2

\* gnss_i += 1, lidar_i += 1 (lines 198, 203)
advance(cursor) == cursor + 1

\* the condition of line 195
gnss_gate == gnss_i < Len(gnss_data) /\ imu_t[k] = gnss_t[gnss_i + 1]

\* the call of line 197
gnss_update ==
    measurement_update(var_gnss, p_cov[k], IntVec(gnss_data[gnss_i + 1]),
                       p_est[k], v_est[k], q_est[k])

\* lines 195-198
GnssCheck ==
    /\ pc = "gnss"
    /\ IF gnss_gate
       THEN With(gnss_update, LAMBDA r :
                IF r.raised
                THEN /\ pc' = "raised"
                     /\ UNCHANGED <<p_est, v_est, q_est, p_cov, gnss_i, applied>>
                ELSE /\ p_est' = [p_est EXCEPT ![k] = r.p_hat]
                     /\ v_est' = [v_est EXCEPT ![k] = r.v_hat]
                     /\ q_est' = [q_est EXCEPT ![k] = r.q_hat]
                     /\ p_cov' = [p_cov EXCEPT ![k] = r.p_cov_hat]
                     /\ gnss_i' = advance(gnss_i)
                     /\ applied' = Append(applied, [sensor |-> "gnss", i |-> gnss_i, k |-> k])
                     /\ pc' = "lidar")
       ELSE /\ pc' = "lidar"
            /\ UNCHANGED <<p_est, v_est, q_est, p_cov, gnss_i, applied>>
    /\ UNCHANGED <<inputs, lidar_i, k>>

\* line 200 matching against the current inertial timestamp, as line 195 does
lidar_gate_current == lidar_i < Len(lidar_t) /\ lidar_t[lidar_i + 1] = imu_t[k]

\* line 200 matching any sample not after the previous inertial timestamp
lidar_gate_not_after == lidar_i < Len(lidar_t) /\ lidar_t[lidar_i + 1] <= imu_t[k - 1]

\* the condition of line 200
lidar_gate == lidar_i < Len(lidar_t) /\ lidar_t[lidar_i + 1] = imu_t[k - 1]

\* line 202 called on the values lines 179-193 wrote, not on those of line 196
lidar_update_on_propagated ==
    With(Propagated(k, C_ns_d_f[k - 1]), LAMBDA r :
        measurement_update(var_lidar, r.cov, IntVec(lidar_data[lidar_i + 1]), r.p, r.v, r.q))

\* the call of line 202
lidar_update ==
    measurement_update(var_lidar, p_cov[k], IntVec(lidar_data[lidar_i + 1]),
                       p_est[k], v_est[k], q_est[k])

\* the loop of line 171 goes on to k + 1, or ends
NextIteration ==
    /\ k' = k + 1
    /\ pc' = IF k + 1 < N THEN "propagate" ELSE "done"

\* lines 200-203, and the end of the loop body
LidarCheck ==
    /\ pc = "lidar"
    /\ IF lidar_gate
       THEN With(lidar_update, LAMBDA r :
                IF r.raised
                THEN /\ pc' = "raised"
                     /\ UNCHANGED <<p_est, v_est, q_est, p_cov, lidar_i, applied, k>>
                ELSE /\ p_est' = [p_est EXCEPT ![k] = r.p_hat]
                     /\ v_est' = [v_est EXCEPT ![k] = r.v_hat]
                     /\ q_est' = [q_est EXCEPT ![k] = r.q_hat]
                     /\ p_cov' = [p_cov EXCEPT ![k] = r.p_cov_hat]
                     /\ lidar_i' = advance(lidar_i)
                     /\ applied' = Append(applied, [sensor |-> "lidar", i |-> lidar_i, k |-> k])
                     /\ NextIteration)
       ELSE /\ NextIteration
            /\ UNCHANGED <<p_est, v_est, q_est, p_cov, lidar_i, applied>>
    /\ UNCHANGED <<inputs, gnss_i>>

Next == Propagate \/ GnssCheck \/ LidarCheck

----------------------------------------------------------------------------
(* Inputs and initial state *)

RECURSIVE SeqsUpTo(_, _)
SeqsUpTo(S, n) ==
    IF n = 0 THEN { <<>> }
    ELSE LET shorter == SeqsUpTo(S, n - 1)
         IN  shorter \cup { Append(s, x) : s \in { t \in shorter : Len(t) = n - 1 }, x \in S }

NonDecreasing(s) == \A i \in 1..(Len(s) - 1) : s[i] <= s[i + 1]
Increasing(s) == \A i \in 1..(Len(s) - 1) : s[i] < s[i + 1]

\* timestamps of a measurement stream: at most MaxMeas samples, non-decreasing
MeasTimes == { s \in SeqsUpTo(0..MaxT, MaxMeas) : NonDecreasing(s) }
IncreasingMeasTimes == { s \in MeasTimes : Increasing(s) }

\* inertial timestamps of n samples.  The program reads them only through
\* differences and equalities, so the first one is fixed.
Timelines(n, first) == { t \in [0..(n - 1) -> 0..MaxT] : t[0] = first }
SteppedTimelines(n, first, steps) ==
    { t \in [0..(n - 1) -> 0..(n * MaxT)] :
        t[0] = first /\ \A i \in 1..(n - 1) : t[i] - t[i - 1] \in steps }

\* the same rotated force at every step
ConstantForces(n) == { [km \in 0..(n - 2) |-> f] : f \in RotatedForces }

\* gnss.data[i], lidar.data[i]
GnssValue(i) == <<i, 0, 1>>
LidarValue(i) == <<0, i + 1, 0>>

Estimates0(first, rest) == [i \in 0..(N - 1) |-> IF i = 0 THEN first ELSE rest]

\* The state before the loop.  The variances are settings of the program (lines
\* 113-116 give one of them: 0.01, 0.01, 10, 1); the model takes small integers
\* for them so that the arithmetic stays exact.
InitWith(TL, GT, LT, FS, VG, VL) ==
    /\ imu_t \in TL
    /\ gnss_t \in GT
    /\ lidar_t \in LT
    /\ C_ns_d_f \in FS
    /\ gnss_data = [i \in 1..Len(gnss_t) |-> GnssValue(i)]
    /\ lidar_data = [i \in 1..Len(lidar_t) |-> LidarValue(i)]
    /\ var_imu_f = 1
    /\ var_imu_w = 1
    /\ var_gnss \in VG
    /\ var_lidar \in VL
    /\ p_est = Estimates0(gt_p0, IntVec(<<0, 0, 0>>))
    /\ v_est = Estimates0(gt_v0, IntVec(<<0, 0, 0>>))
    /\ q_est = Estimates0(q_init, q_zeros)
    /\ p_cov = [i \in 0..(N - 1) |-> zeros(9, 9)]
    /\ gnss_i = 0
    /\ lidar_i = 0
    /\ k = 1
    /\ pc = IF 1 < N THEN "propagate" ELSE "done"
    /\ applied = <<>>

\* Every timeline and every pair of measurement streams, one setting of the variances
Init ==
    InitWith(Timelines(NImu, 1), MeasTimes, MeasTimes,
             { [km \in 0..(NImu - 2) |-> <<1, 0, 2>>] }, {2}, {1})

Spec == Init /\ [][Next]_vars

\* Increasing timelines of one sample more, every force, and at most MaxMeas
\* measurement samples in all
InitNum ==
    /\ InitWith(SteppedTimelines(NImu + 1, 0, {1, 2}), IncreasingMeasTimes,
                IncreasingMeasTimes, ConstantForces(NImu + 1), {2}, {1})
    /\ Len(gnss_t) + Len(lidar_t) <= MaxMeas

SpecNum == InitNum /\ [][Next]_vars

\* Both sensor variances misconfigured to zero
InitZeroVar ==
    InitWith(SteppedTimelines(NImu, 0, {1, 2}), IncreasingMeasTimes, IncreasingMeasTimes,
             ConstantForces(NImu), {0}, {0})

SpecZeroVar == InitZeroVar /\ [][Next]_vars

\* runs of NImu samples with positive variances, whose covariances the exact
\* test for negative eigenvalues handles within the integer range
InitPsd == InitWith(SteppedTimelines(NImu, 0, {1, 2}), IncreasingMeasTimes,
                    IncreasingMeasTimes, ConstantForces(NImu), {2}, {1})
SpecPsd == InitPsd /\ [][Next]_vars

----------------------------------------------------------------------------
(* Notions the properties are stated in *)

Range(f) == { f[x] : x \in DOMAIN f }

\* the measurement_update calls of one sensor that returned at step j
FiredAt(sensor, j) == { n \in 1..Len(applied) : applied[n].sensor = sensor /\ applied[n].k = j }
Fired(sensor) == { n \in 1..Len(applied) : applied[n].sensor = sensor }

Estimates == <<p_est, v_est, q_est, p_cov>>

\* numerator of the trace of the position block (rows and columns 0..2)
TracePos(P) == P.num[1][1] + P.num[2][2] + P.num[3][3]

Symmetric(P) == \A i \in 1..9 : \A j \in 1..9 : P.num[i][j] = P.num[j][i]

\* A symmetric integer matrix has no negative eigenvalue iff its first diagonal
\* entry a is >= 0, its first row is zero when a = 0, and otherwise the Schur
\* complement of a (scaled by a, reduced by its gcd) has none.
Minor(m) == Force([i \in 1..(Len(m) - 1) |-> [j \in 1..(Len(m) - 1) |-> m[i + 1][j + 1]]])
Schur(m) ==
    Force([i \in 1..(Len(m) - 1) |-> [j \in 1..(Len(m) - 1) |->
               m[1][1] * m[i + 1][j + 1] - m[i + 1][1] * m[1][j + 1]]])
Reduced(c) ==
    IF Len(c) = 0 THEN c
    ELSE With(MatGcd(c, Len(c), 0), LAMBDA d : IF d = 0 THEN c ELSE MatOver(c, 1, d).num)

RECURSIVE NoNegativeEigenvalue(_)
NoNegativeEigenvalue(m) ==
    IF Len(m) = 0 THEN TRUE
    ELSE IF m[1][1] < 0 THEN FALSE
    ELSE IF m[1][1] = 0
    THEN (\A j \in 1..Len(m) : m[1][j] = 0) /\ NoNegativeEigenvalue(Minor(m))
    ELSE NoNegativeEigenvalue(Reduced(Schur(m)))

StrictlyIncreasingImu == \A j \in 1..(N - 1) : imu_t[j - 1] < imu_t[j]
NonDecreasingImu == \A j \in 1..(N - 1) : imu_t[j - 1] <= imu_t[j]

----------------------------------------------------------------------------
(* Properties *)

\* C1: at step k a GNSS correction is applied iff the GNSS cursor is below the
\* number of GNSS samples and the GNSS timestamp at the cursor equals imu_t[k];
\* then the sample at the cursor and the GNSS variance are used and the cursor
\* grows by one; otherwise cursor and estimates are unchanged in that step.
C1_GnssGating ==
    [][pc = "gnss" =>
        IF gnss_i < Len(gnss_t) /\ gnss_t[gnss_i + 1] = imu_t[k]
        THEN With(measurement_update(var_gnss, p_cov[k], IntVec(gnss_data[gnss_i + 1]),
                                     p_est[k], v_est[k], q_est[k]), LAMBDA r :
                 /\ gnss_i' = gnss_i + 1
                 /\ applied' = Append(applied, [sensor |-> "gnss", i |-> gnss_i, k |-> k])
                 /\ p_cov'[k] = r.p_cov_hat
                 /\ p_est'[k] = r.p_hat
                 /\ v_est'[k] = r.v_hat
                 /\ q_est'[k] = r.q_hat)
        ELSE /\ gnss_i' = gnss_i
             /\ applied' = applied
             /\ Estimates' = Estimates]_vars

\* C1 witness: a GNSS correction has been applied at step 2 with sample 1, and
\* the sample before it was applied at step 1
C1_Witness ==
    /\ Len(applied) >= 2
    /\ \E n \in Fired("gnss") : applied[n].k = 2 /\ applied[n].i = 1

\* C2: at step k a LIDAR correction is applied iff the LIDAR cursor is below the
\* number of LIDAR samples and the LIDAR timestamp at the cursor equals the
\* previous inertial timestamp imu_t[k-1]; then the corrected state is written
\* to index k with the LIDAR variance and the cursor grows by one; otherwise the
\* cursor and the estimates are unchanged in that step.
C2_LidarGating ==
    [][pc = "lidar" =>
        IF lidar_i < Len(lidar_t) /\ lidar_t[lidar_i + 1] = imu_t[k - 1]
        THEN With(measurement_update(var_lidar, p_cov[k], IntVec(lidar_data[lidar_i + 1]),
                                     p_est[k], v_est[k], q_est[k]), LAMBDA r :
                 /\ lidar_i' = lidar_i + 1
                 /\ applied' = Append(applied, [sensor |-> "lidar", i |-> lidar_i, k |-> k])
                 /\ p_cov'[k] = r.p_cov_hat
                 /\ p_est'[k] = r.p_hat
                 /\ v_est'[k] = r.v_hat
                 /\ q_est'[k] = r.q_hat
                 /\ \A j \in (0..(N - 1)) \ {k} :
                        p_cov'[j] = p_cov[j] /\ p_est'[j] = p_est[j])
        ELSE /\ lidar_i' = lidar_i
             /\ applied' = applied
             /\ Estimates' = Estimates]_vars

\* C2 witness: a LIDAR sample stamped imu_t[1], different from imu_t[2], has
\* been applied at step 2
C2_Witness ==
    \E n \in Fired("lidar") :
        /\ applied[n].k = 2
        /\ lidar_t[applied[n].i + 1] = imu_t[1]
        /\ imu_t[1] # imu_t[2]

\* the estimate of a step as a record
StateOf(p, v, q, cov) == [p |-> p, v |-> v, q |-> q, cov |-> cov]

\* measurement_update applied to an estimate, as a record of the same shape
Corrected(sensor_var, y, e) ==
    With(measurement_update(sensor_var, e.cov, IntVec(y), e.p, e.v, e.q), LAMBDA r :
        StateOf(r.p_hat, r.v_hat, r.q_hat, r.p_cov_hat))

\* What step j must have left at index j: the propagation from index j - 1, then
\* the GNSS correction if one was applied at j, then the LIDAR correction if one
\* was applied at j, each on the result of the one before
AfterGnss(j, e) ==
    IF FiredAt("gnss", j) = {} THEN e
    ELSE Corrected(var_gnss, gnss_data[applied[CHOOSE n \in FiredAt("gnss", j) : TRUE].i + 1], e)
AfterLidar(j, e) ==
    IF FiredAt("lidar", j) = {} THEN e
    ELSE Corrected(var_lidar, lidar_data[applied[CHOOSE n \in FiredAt("lidar", j) : TRUE].i + 1], e)
InOrder(j) ==
    With(Propagated(j, C_ns_d_f[j - 1]), LAMBDA pr :
        AfterLidar(j, AfterGnss(j, StateOf(pr.p, pr.v, pr.q, pr.cov))))

\* C3: every finished step k left at index k the result of propagation, then
\* GNSS correction (if gated in), then LIDAR correction (if gated in), the LIDAR
\* correction taking the values the GNSS correction of that step produced; the
\* two are separate calls, GNSS first.
C3_StepOrder ==
    \A j \in 1..(k - 1) :
        /\ StateOf(p_est[j], v_est[j], q_est[j], p_cov[j]) = InOrder(j)
        /\ Cardinality(FiredAt("gnss", j)) <= 1
        /\ Cardinality(FiredAt("lidar", j)) <= 1
        /\ \A n \in FiredAt("gnss", j) : \A m \in FiredAt("lidar", j) : n < m

\* C3 witness: both corrections fired at a finished step whose propagated
\* covariance has a non-zero position block, so that the GNSS correction
\* changed what the LIDAR correction read
C3_Witness ==
    \E j \in 1..(k - 1) :
        /\ FiredAt("gnss", j) # {}
        /\ FiredAt("lidar", j) # {}
        /\ TracePos(Propagated(j, C_ns_d_f[j - 1]).cov) > 0

\* C4: each cursor lies between 0 and the length of its stream, never
\* decreases, grows by at most one per step; every sample is applied at most
\* once, in sequence order, and the corrections applied for a stream are as
\* many as its cursor.
C4_CursorState ==
    /\ gnss_i \in 0..Len(gnss_t)
    /\ lidar_i \in 0..Len(lidar_t)
    /\ Cardinality(Fired("gnss")) = gnss_i
    /\ Cardinality(Fired("lidar")) = lidar_i
    /\ \A n \in 1..Len(applied) : \A m \in 1..Len(applied) :
          (n < m /\ applied[n].sensor = applied[m].sensor)
              => /\ applied[n].i < applied[m].i
                 /\ applied[n].k < applied[m].k
    /\ \A n \in 1..Len(applied) :
          applied[n].i = Cardinality({ m \in 1..(n - 1) : applied[m].sensor = applied[n].sensor })

C4_CursorStep ==
    /\ gnss_i' \in {gnss_i, gnss_i + 1}
    /\ lidar_i' \in {lidar_i, lidar_i + 1}

C4_Cursors == []C4_CursorState /\ [][C4_CursorStep]_vars

\* C4 witness: the run is over and both streams were consumed to their end
C4_Witness ==
    /\ pc = "done"
    /\ gnss_i = Len(gnss_t) /\ gnss_i = MaxMeas
    /\ lidar_i = Len(lidar_t) /\ lidar_i = MaxMeas

\* the inertial timestamps a sample of either stream is compared with
GnssCompared == { imu_t[j] : j \in 1..(N - 1) }
LidarCompared == { imu_t[j - 1] : j \in 1..(N - 1) }

\* every applied sample carried the timestamp its step compared it with
AppliedOnMatch ==
    \A n \in 1..Len(applied) :
        IF applied[n].sensor = "gnss"
        THEN gnss_t[applied[n].i + 1] = imu_t[applied[n].k]
        ELSE lidar_t[applied[n].i + 1] = imu_t[applied[n].k - 1]

C5_State ==
    /\ pc # "raised"
    /\ pc = "done" <=> k = N
    /\ pc \in {"propagate", "gnss", "lidar", "done"}
    /\ pc # "done" => k \in 1..(N - 1)
    /\ AppliedOnMatch
    /\ \A i \in 1..Len(gnss_t) :
          gnss_t[i] \notin GnssCompared => \A n \in Fired("gnss") : applied[n].i # i - 1
    /\ \A i \in 1..Len(lidar_t) :
          lidar_t[i] \notin LidarCompared => \A n \in Fired("lidar") : applied[n].i # i - 1

\* a step writes to index k only
C5_Step == \A j \in (0..(N - 1)) \ {k} :
              /\ p_est'[j] = p_est[j]
              /\ v_est'[j] = v_est[j]
              /\ q_est'[j] = q_est[j]
              /\ p_cov'[j] = p_cov[j]

\* C5: a measurement whose timestamp equals no inertial timestamp the gating
\* compares it with is never applied, at a later step or to an earlier index;
\* the loop raises no error over it and runs every step to the end, where
\* unconsumed measurements are no error.
C5_MismatchSkipped == []C5_State /\ [][C5_Step]_vars

\* C5 witness: the run ended with a GNSS sample at the cursor that matched no
\* inertial timestamp, a matching sample behind it, and a LIDAR sample applied
C5_Witness ==
    /\ pc = "done"
    /\ gnss_i = 0 /\ Len(gnss_t) = 2
    /\ gnss_t[1] \notin GnssCompared
    /\ gnss_t[2] \in GnssCompared
    /\ lidar_i >= 1

\* C6 (the claim as stated): a time step imu_t[j] - imu_t[j-1] <= 0 aborts the
\* run at step j: nothing is produced for index j or any later index.
C6_InvalidTimestepAborts ==
    \A j \in 1..(N - 1) :
        imu_t[j] - imu_t[j - 1] <= 0 => (k < j \/ (k = j /\ pc = "propagate"))

\* C7 (the claim as stated): a correction gated in with a singular innovation
\* covariance is abandoned, the propagated estimate of index k stands, the
\* cursor stays, and the loop goes on.
C7_SingularGoesOn ==
    [][/\ (pc = "gnss" /\ gnss_i < Len(gnss_t) /\ gnss_t[gnss_i + 1] = imu_t[k]
              /\ Singular(innovation_cov(var_gnss, p_cov[k])))
          => (gnss_i' = gnss_i /\ Estimates' = Estimates /\ pc' = "lidar")
       /\ (pc = "lidar" /\ lidar_i < Len(lidar_t) /\ lidar_t[lidar_i + 1] = imu_t[k - 1]
              /\ Singular(innovation_cov(var_lidar, p_cov[k])))
          => (lidar_i' = lidar_i /\ Estimates' = Estimates /\ k' = k + 1
                /\ pc' \in {"propagate", "done"})]_vars

\* x/xd < y/yd and x/xd <= y/yd for positive denominators
RatLess(x, xd, y, yd) ==
    With(Gcd(xd, yd), LAMBDA c : x * (yd \div c) < y * (xd \div c))
RatLeq(x, xd, y, yd) ==
    With(Gcd(xd, yd), LAMBDA c : x * (yd \div c) <= y * (xd \div c))

\* C8 (the claim as stated): every measurement_update with a positive variance
\* returns a covariance whose position block has a strictly smaller trace.
C8_StrictShrink ==
    [][applied' # applied =>
          RatLess(TracePos(p_cov'[k]), p_cov'[k].den, TracePos(p_cov[k]), p_cov[k].den)]_vars

\* C8 (amended): the trace of the position block is never greater after a
\* measurement_update with positive variance, and strictly smaller whenever it
\* was positive before; on a zero position block it stays zero.
C8_ShrinkUnlessZero ==
    [][(applied' # applied /\ var_gnss > 0 /\ var_lidar > 0) =>
          /\ RatLeq(TracePos(p_cov'[k]), p_cov'[k].den, TracePos(p_cov[k]), p_cov[k].den)
          /\ TracePos(p_cov[k]) > 0 =>
                RatLess(TracePos(p_cov'[k]), p_cov'[k].den, TracePos(p_cov[k]), p_cov[k].den)
          /\ TracePos(p_cov[k]) = 0 => TracePos(p_cov'[k]) = 0]_vars

\* C8 witness: a GNSS correction at a step past the first has just shrunk a
\* positive position trace
C8_Witness ==
    /\ pc = "lidar"
    /\ k >= 2
    /\ FiredAt("gnss", k) # {}
    /\ TracePos(p_cov[k]) > 0
    /\ RatLess(TracePos(p_cov[k]), p_cov[k].den,
               TracePos(Propagated(k, C_ns_d_f[k - 1]).cov),
               Propagated(k, C_ns_d_f[k - 1]).cov.den)

\* C9: with positive noise variances, every stored covariance p_cov[j] is
\* symmetric and has no negative eigenvalue, after propagation and after each
\* correction.
C9_SymmetricPSD ==
    (var_imu_f > 0 /\ var_imu_w > 0 /\ var_gnss > 0 /\ var_lidar > 0) =>
        \A j \in 0..(N - 1) :
            /\ p_cov[j].den > 0
            /\ Symmetric(p_cov[j])
            /\ NoNegativeEigenvalue(p_cov[j].num)

\* C9 witness: the run ended with both corrections applied at the last step, on
\* a covariance that couples velocity and rotation errors
C9_Witness ==
    /\ pc = "done"
    /\ FiredAt("gnss", N - 1) # {}
    /\ FiredAt("lidar", N - 1) # {}
    /\ \E i \in 4..6 : \E j \in 7..9 : p_cov[N - 1].num[i][j] # 0

\* the sample at the cursor can no longer match
StuckGnss ==
    /\ gnss_i < Len(gnss_t)
    /\ \/ gnss_t[gnss_i + 1] <= imu_t[0]
       \/ \E j \in 1..(N - 1) :
             j <= k /\ imu_t[j - 1] < gnss_t[gnss_i + 1] /\ gnss_t[gnss_i + 1] < imu_t[j]
       \/ gnss_i >= 1 /\ gnss_t[gnss_i + 1] = gnss_t[gnss_i]
StuckLidar ==
    /\ lidar_i < Len(lidar_t)
    /\ \/ lidar_t[lidar_i + 1] < imu_t[0]
       \/ \E j \in 1..(N - 1) :
             j <= k - 1 /\ imu_t[j - 1] < lidar_t[lidar_i + 1] /\ lidar_t[lidar_i + 1] < imu_t[j]
       \/ lidar_i >= 1 /\ lidar_t[lidar_i + 1] = lidar_t[lidar_i]

HeadOfLineState(ordered) ==
    ordered =>
        /\ (\E i \in 1..Len(gnss_t) : gnss_t[i] = imu_t[0]) => gnss_i = 0
        /\ \A n \in Fired("lidar") : lidar_t[applied[n].i + 1] # imu_t[N - 1]
HeadOfLineStep(ordered) ==
    /\ (ordered /\ StuckGnss) => gnss_i' = gnss_i
    /\ (ordered /\ StuckLidar) => lidar_i' = lidar_i

====
